---- MODULE Spec2Model ----
(***************************************************************************)
(* Room lifecycle and event relay of app.py (Flask-SocketIO game rooms).   *)
(*                                                                         *)
(* State: the registry `rooms` (room id -> RoomState object), the          *)
(* RoomState objects themselves (`heap`, indexed in creation order), the   *)
(* Socket.IO broadcast groups, the wall clock, the connections, and one    *)
(* record per handler thread holding the handler's locals and position.    *)
(* A handler is cut into steps at every access to the registry and at      *)
(* every lock boundary. The handler threads are the domain of `th`, which  *)
(* the initial condition fixes: with one handler thread a handler runs to  *)
(* completion before the next one starts, with two the steps of two        *)
(* handlers interleave.                                                    *)
(*                                                                         *)
(* Spec       one room, every handler, the clock, spawns                   *)
(* SpecRooms  two rooms, every handler but spawn, no clock                 *)
(* SpecHist   one room, one client spawning past the history cap           *)
(* SpecState  SpecHist with get_room_state                                 *)
(* SpecMirror one spawn at each position of a grid                         *)
(* SpecIds    room ids that uuid4 may return again                         *)
(* SpecConc   two handler threads, one room: join, leave, disconnect       *)
(* SpecLocks  two handler threads, two rooms, one client                   *)
(*                                                                         *)
(* Time is counted in quarter seconds; coordinates are integers. Except    *)
(* in SpecIds, uuid4 happens to return an id it has not returned before.   *)
(***************************************************************************)
EXTENDS Integers, Sequences, FiniteSets, TLC

\* ------------------------------------------------------------ configuration
CANVAS_WIDTH == 480
CANVAS_HEIGHT == 720
PLAYERSIZE == 120
\* 0.5 s, in quarter seconds
SPAWN_COOLDOWN_SEC == 2
\* len(room.last_spawns) > 200
HISTORY_CAP == 200
\* room.last_spawns[-30:]
STATE_HISTORY == 30

\* ------------------------------------------------------------------ bounds
\* last value of the clock in Spec
MaxTime == 3
\* spawn entries appended in a run of Spec, over all rooms
MaxSpawns == 2
\* spawn entries appended in a run of SpecHist
HistSpawns == 250
\* rooms created in a run of SpecIds
MaxRooms == 2

Sessions == {"s1", "s2"}
Names == {"A", "B"}
\* the room ids uuid4 yields: every room there can be in a run
RoomIds == {1, 2}
\* a missing / falsy room_id in a payload
NoRid == 0
\* `room` local holding None
NoRoom == 0
\* time.time() at server start is far above the cooldown; PlayerMeta.last_spawn_ts = 0.0
StartTime == SPAWN_COOLDOWN_SEC

\* A payload value: absent (None), a number, or a string; a string carries the
\* number float() parses it to, or Unparsable.
Unparsable == -9999
None == [t |-> "none", v |-> 0]
Num(n) == [t |-> "num", v |-> n]
Str(n) == [t |-> "str", v |-> n]

\* the spawn payloads clients send: char, x, y, meta
SpawnInputs ==
  { [char |-> "knight", x |-> Num(100), y |-> Num(600), meta |-> "m"],
    [char |-> "knight", x |-> Str(400), y |-> Num(-30), meta |-> "m"],
    [char |-> "knight", x |-> Str(Unparsable), y |-> Num(50), meta |-> "m"],
    [char |-> "knight", x |-> None, y |-> Num(50), meta |-> "m"] }
\* spawn positions on, next to and far from the edges of the clamp ranges
MirrorXs == {-1000, -1, 0, 1, 100, 359, 360, 361, 480, 1000}
MirrorYs == {-1000, -121, -120, -1, 0, 1, 300, 599, 600, 601, 720, 721, 1000}
MirrorInputs ==
  {[char |-> "knight", x |-> Num(x), y |-> Num(y), meta |-> "m"] :
     x \in MirrorXs, y \in MirrorYs}
NoData == [char |-> "", x |-> None, y |-> None, meta |-> ""]

VARIABLES
  rooms,     \* registry: function room id -> index of its RoomState in heap
  heap,      \* sequence of RoomState objects, in creation order
  groups,    \* Socket.IO broadcast groups: room id -> set of session ids
  clock,     \* time.time()
  conn,      \* session -> "new" | "up" | "gone"
  th,        \* handler thread -> locals and position of the handler it runs
  accepted,  \* per RoomState: every spawn entry ever appended (history variable)
  lim        \* extent of the run: the room ids uuid4 draws from and whether
             \* it may repeat one, the number of rooms created, the names
             \* clients send, the last clock value, the number of spawn
             \* entries appended, whether handlers record the state they
             \* started in

vars == <<rooms, heap, groups, clock, conn, th, accepted, lim>>

\* ------------------------------------------------------------ pure helpers
Max(a, b) == IF a > b THEN a ELSE b
Min(a, b) == IF a < b THEN a ELSE b

\* float(x): numbers and numeric strings convert, anything else raises
ToFloat(val) ==
  IF val.t = "num" THEN [ok |-> TRUE, v |-> val.v]
  ELSE IF val.t = "str" /\ val.v # Unparsable THEN [ok |-> TRUE, v |-> val.v]
  ELSE [ok |-> FALSE, v |-> 0]

\* mutant: the clamping is lost
canonical_mirror_coords_NoClamp(x, y) ==
  [x |-> x, y |-> CANVAS_HEIGHT - y - PLAYERSIZE]

\* mutant: new_y is clamped into the range of new_x
canonical_mirror_coords_WidthClamp(x, y) ==
  LET new_y == CANVAS_HEIGHT - y - PLAYERSIZE
  IN [x |-> Max(0, Min(x, CANVAS_WIDTH - PLAYERSIZE)),
      y |-> Max(0, Min(new_y, CANVAS_WIDTH - PLAYERSIZE))]

canonical_mirror_coords(x, y) ==
  LET new_y == CANVAS_HEIGHT - y - PLAYERSIZE
  IN [x |-> Max(0, Min(x, CANVAS_WIDTH - PLAYERSIZE)),
      y |-> Max(0, Min(new_y, CANVAS_HEIGHT - PLAYERSIZE))]

\* mutant: the cooldown check is lost
CooldownActive_Never(now, last_ts) == FALSE

\* now - last_ts < SPAWN_COOLDOWN_SEC
CooldownActive(now, last_ts) == now - last_ts < SPAWN_COOLDOWN_SEC

\* mutant: over the cap the new entry is dropped, not the oldest
AppendBounded_DropNewest(hist, entry) ==
  IF Len(hist) >= HISTORY_CAP THEN hist ELSE Append(hist, entry)

\* append, then pop(0) once the list is longer than the cap
AppendBounded(hist, entry) ==
  LET h == Append(hist, entry)
  IN IF Len(h) > HISTORY_CAP THEN Tail(h) ELSE h

\* mutant: the first n entries are taken, lst[:n]
LastN_First(lst, n) ==
  IF Len(lst) <= n THEN lst ELSE SubSeq(lst, 1, n)

\* lst[-n:]
LastN(lst, n) ==
  IF Len(lst) <= n THEN lst ELSE SubSeq(lst, Len(lst) - n + 1, Len(lst))

PlayerMeta(name) == [name |-> name, last_spawn_ts |-> 0]

RoomState(rid, host_sid) ==
  [id |-> rid, host_sid |-> host_sid, players |-> <<>>,
   game_started |-> FALSE, ai_mode |-> FALSE, last_spawns |-> <<>>, lock |-> 0]

\* a RoomState no reference is left to: only the id it had is remembered
Collected(room) == RoomState(room.id, "")

\* del d[k]
DictDel(d, k) == [q \in DOMAIN d \ {k} |-> d[q]]
\* d[k] = v
DictPut(d, k, v) == [q \in DOMAIN d \cup {k} |-> IF q = k THEN v ELSE d[q]]

\* rooms.get(rid)
get_room(rid) == IF rid \in DOMAIN rooms THEN rooms[rid] ELSE NoRoom

\* list(rooms.keys()): the keys in insertion order
RoomKeys ==
  LET S == DOMAIN rooms
  IN [i \in 1..Cardinality(S) |->
        CHOOSE r \in S : Cardinality({q \in S : rooms[q] < rooms[r]}) = i - 1]

\* uuid4().hex[:8]: any of the ids; in the runs with lim.reuse = FALSE uuid4
\* happens never to return an id it returned before
make_room_id ==
  {id \in lim.ids : lim.reuse \/ id \notin {heap[i].id : i \in 1..Len(heap)}}

\* the players of a room as sent in a reply: [{sid, name}, ...]
PlayerList(players) == {[sid |-> s, name |-> players[s].name] : s \in DOMAIN players}

Settings ==
  [canvas_width |-> CANVAS_WIDTH, canvas_height |-> CANVAS_HEIGHT,
   playersize |-> PLAYERSIZE]

\* ------------------------------------------------------------ handler threads
NoSnap == [rooms |-> <<>>, heap |-> <<>>]
IdleRec ==
  [pc |-> "idle", op |-> "none", sid |-> "", rid |-> NoRid, name |-> "",
   ai |-> FALSE, data |-> NoData, room |-> NoRoom, todo |-> <<>>, now |-> 0,
   fx |-> 0, fy |-> 0, res |-> "", out |-> <<>>, pre |-> NoSnap]

Msg(event, to, body) == [event |-> event, to |-> to, body |-> body]

\* emit(event, body) inside a handler: to the calling session only
EmitSelf(me, event, body) == [me EXCEPT !.out = Append(@, Msg(event, {me.sid}, body))]
\* socketio.emit(event, body, room=rid)
EmitRoom(me, event, body, rid) ==
  [me EXCEPT !.out = Append(@, Msg(event, groups[rid], body))]
\* mutant: include_self is lost, the sender gets the broadcast too
EmitOthers_Echo(me, event, body, rid) ==
  [me EXCEPT !.out = Append(@, Msg(event, groups[rid], body))]

\* socketio.emit(event, body, room=rid, include_self=False)
EmitOthers(me, event, body, rid) ==
  [me EXCEPT !.out = Append(@, Msg(event, groups[rid] \ {me.sid}, body))]

\* the handler returns with result res
Ret(me, res) == [me EXCEPT !.pc = "done", !.res = res]

\* a handler starts on an idle thread, for a connected session
Begin(t, op, sid) ==
  [IdleRec EXCEPT !.op = op, !.sid = sid,
                  !.pre = IF lim.snap THEN [rooms |-> rooms, heap |-> heap]
                          ELSE NoSnap]

Idle(t) == th[t].pc = "idle"

\* the server after construction, with handler threads T
Start(T) ==
  /\ rooms = <<>>
  /\ heap = <<>>
  /\ groups = [r \in RoomIds |-> {}]
  /\ clock = StartTime
  /\ conn = [s \in Sessions |-> "new"]
  /\ th = [t \in T |-> IdleRec]
  /\ accepted = <<>>

Init ==
  /\ Start({1})
  /\ lim = [ids |-> {1}, reuse |-> FALSE, rooms |-> 1, names |-> {"A"},
            time |-> MaxTime, spawns |-> MaxSpawns, snap |-> TRUE]

\* time passes
Tick ==
  /\ clock < lim.time
  /\ clock' = clock + 1
  /\ UNCHANGED <<rooms, heap, groups, conn, th, accepted, lim>>

\* on_connect
Connect(s) ==
  /\ conn[s] = "new"
  /\ conn' = [conn EXCEPT ![s] = "up"]
  /\ UNCHANGED <<rooms, heap, groups, clock, th, accepted, lim>>

\* mutant: the lock is taken without waiting for it to be free
Acquire_NoWait(t) ==
  /\ th[t].pc = "lock"
  /\ heap' = [heap EXCEPT ![th[t].room].lock = t]
  /\ th' = [th EXCEPT ![t].pc = "body"]
  /\ UNCHANGED <<rooms, groups, clock, conn, accepted, lim>>

\* with room.lock: (entry)
Acquire(t) ==
  /\ th[t].pc = "lock"
  /\ heap[th[t].room].lock = 0
  /\ heap' = [heap EXCEPT ![th[t].room].lock = t]
  /\ th' = [th EXCEPT ![t].pc = "body"]
  /\ UNCHANGED <<rooms, groups, clock, conn, accepted, lim>>

\* the handler has returned: the thread is free again
Return(t) ==
  /\ th[t].pc = "done"
  /\ th' = [th EXCEPT ![t] = IdleRec]
  /\ UNCHANGED <<rooms, heap, groups, clock, conn, accepted, lim>>

\* ------------------------------------------------------------ create_room
\* create_room(sid, name): the RoomState is built and put in the registry
CreateRoom(t, s, name) ==
  /\ Idle(t) /\ conn[s] = "up"
  /\ Len(heap) < lim.rooms
  /\ \E rid \in make_room_id :
       LET room == [RoomState(rid, s) EXCEPT !.players = DictPut(<<>>, s, PlayerMeta(name))]
       IN /\ heap' = Append(heap, room)
          /\ accepted' = Append(accepted, <<>>)
          /\ rooms' = DictPut(rooms, rid, Len(heap) + 1)
          /\ th' = [th EXCEPT ![t] =
                      [Begin(t, "create_room", s) EXCEPT
                          !.pc = "created", !.rid = rid, !.name = name,
                          !.room = Len(heap) + 1]]
  /\ UNCHANGED <<groups, clock, conn, lim>>

\* join_room(room.id); emit("room_created", ...)
CreateRoomReply(t) ==
  /\ th[t].pc = "created"
  /\ LET me == th[t]
         room == heap[me.room]
     IN /\ groups' = [groups EXCEPT ![room.id] = @ \cup {me.sid}]
        /\ th' = [th EXCEPT ![t] =
                    Ret(EmitSelf(me, "room_created",
                                 [room_id |-> room.id,
                                  players |-> PlayerList(room.players),
                                  settings |-> Settings]),
                        "room_created")]
  /\ UNCHANGED <<rooms, heap, clock, conn, accepted, lim>>

\* ------------------------------------------------------------ join_room
\* on_join_room up to the lookup of the room
JoinRoom(t, s, rid, name) ==
  /\ Idle(t) /\ conn[s] = "up"
  /\ LET me == [Begin(t, "join_room", s) EXCEPT !.rid = rid, !.name = name]
     IN th' = [th EXCEPT ![t] =
          IF rid = NoRid
          THEN Ret(EmitSelf(me, "join_failed", [reason |-> "missing room_id"]),
                   "join_failed")
          ELSE IF get_room(rid) = NoRoom
          THEN Ret(EmitSelf(me, "join_failed", [reason |-> "room not found"]),
                   "join_failed")
          ELSE [me EXCEPT !.pc = "lock", !.room = get_room(rid)]]
  /\ UNCHANGED <<rooms, heap, groups, clock, conn, accepted, lim>>

\* mutant: a member joining again keeps the old name
JoinPlayers_KeepName(players, sid, name) ==
  IF sid \in DOMAIN players THEN players ELSE DictPut(players, sid, PlayerMeta(name))

\* the players map after a join of sid under name
JoinPlayers(players, sid, name) ==
  IF sid \in DOMAIN players
  THEN [players EXCEPT ![sid].name = name]
  ELSE DictPut(players, sid, PlayerMeta(name))

\* the body of `with room.lock` in on_join_room
JoinBody(t) ==
  /\ th[t].pc = "body" /\ th[t].op = "join_room"
  /\ LET me == th[t]
     IN /\ heap' = [heap EXCEPT
                      ![me.room].players = JoinPlayers(@, me.sid, me.name),
                      ![me.room].lock = 0]
        /\ groups' = [groups EXCEPT ![me.rid] = @ \cup {me.sid}]
        /\ th' = [th EXCEPT ![t].pc = "joined"]
  /\ UNCHANGED <<rooms, clock, conn, accepted, lim>>

\* socketio.emit("player_joined", ..., room=rid); emit("joined_room", ...)
JoinReply(t) ==
  /\ th[t].pc = "joined"
  /\ LET me == th[t]
         m1 == EmitRoom(me, "player_joined", [sid |-> me.sid, name |-> me.name], me.rid)
         m2 == EmitSelf(m1, "joined_room",
                        [room_id |-> me.rid,
                         players |-> PlayerList(heap[me.room].players),
                         settings |-> Settings])
     IN th' = [th EXCEPT ![t] = Ret(m2, "joined_room")]
  /\ UNCHANGED <<rooms, heap, groups, clock, conn, accepted, lim>>

\* ------------------------------------------------------ leave_room, disconnect
\* on_leave_room up to the lookup of the room
LeaveRoom(t, s, rid) ==
  /\ Idle(t) /\ conn[s] = "up"
  /\ LET me == [Begin(t, "leave_room", s) EXCEPT !.rid = rid]
     IN th' = [th EXCEPT ![t] =
          IF rid = NoRid \/ get_room(rid) = NoRoom
          THEN Ret(me, "noop")
          ELSE [me EXCEPT !.pc = "lock", !.room = get_room(rid)]]
  /\ UNCHANGED <<rooms, heap, groups, clock, conn, accepted, lim>>

\* on_disconnect: the connection is gone; rids = list(rooms.keys())
Disconnect(t, s) ==
  /\ Idle(t) /\ conn[s] = "up"
  /\ conn' = [conn EXCEPT ![s] = "gone"]
  /\ th' = [th EXCEPT ![t] =
              [Begin(t, "disconnect", s) EXCEPT !.pc = "scan", !.todo = RoomKeys]]
  /\ UNCHANGED <<rooms, heap, groups, clock, accepted, lim>>

\* for rid in ...: room = rooms.get(rid); if not room: continue
DisconnectScan(t) ==
  /\ th[t].pc = "scan"
  /\ LET me == th[t]
     IN th' = [th EXCEPT ![t] =
          IF me.todo = <<>> THEN Ret([me EXCEPT !.rid = NoRid, !.room = NoRoom], "disconnected")
          ELSE IF get_room(Head(me.todo)) = NoRoom
          THEN [me EXCEPT !.todo = Tail(@)]
          ELSE [me EXCEPT !.pc = "lock", !.rid = Head(me.todo),
                          !.room = get_room(Head(me.todo))]]
  /\ UNCHANGED <<rooms, heap, groups, clock, conn, accepted, lim>>

\* the body of `with room.lock` in on_leave_room and in on_disconnect
LeaveBody(t) ==
  /\ th[t].pc = "body" /\ th[t].op \in {"leave_room", "disconnect"}
  /\ LET me == th[t]
         room == heap[me.room]
     IN IF me.sid \in DOMAIN room.players
        THEN /\ heap' = [heap EXCEPT ![me.room].players = DictDel(@, me.sid),
                                     ![me.room].lock = 0]
             /\ groups' = [groups EXCEPT ![me.rid] = @ \ {me.sid}]
             /\ th' = [th EXCEPT ![t] =
                  [me EXCEPT !.pc = "cleanup",
                             !.out = Append(@, Msg("player_left",
                                                   groups[me.rid] \ {me.sid},
                                                   [sid |-> me.sid,
                                                    name |-> room.players[me.sid].name]))]]
        ELSE /\ heap' = [heap EXCEPT ![me.room].lock = 0]
             /\ th' = [th EXCEPT ![t].pc = "cleanup"]
             /\ UNCHANGED groups
  /\ UNCHANGED <<rooms, clock, conn, accepted, lim>>

\* mutant: the emptiness test never succeeds
RoomIsEmpty_Never(room) == FALSE

\* len(room.players) == 0
RoomIsEmpty(room) == Cardinality(DOMAIN room.players) = 0

\* mutant: on_disconnect returns after the first room it cleaned up
AfterCleanup_ReturnEarly(me) == [me EXCEPT !.pc = "done", !.res = "left", !.room = NoRoom]

\* where a handler goes on after cleanup_room_if_empty(rid)
AfterCleanup(me) ==
  IF me.op = "disconnect"
  THEN [me EXCEPT !.pc = "scan", !.todo = Tail(@), !.room = NoRoom]
  ELSE Ret([me EXCEPT !.room = NoRoom], "left")

\* cleanup_room_if_empty: room = get_room(rid); if not room: return;
\* if len(room.players) == 0
CleanupCheck(t) ==
  /\ th[t].pc = "cleanup"
  /\ LET me == th[t]
         r == get_room(me.rid)
     IN th' = [th EXCEPT ![t] =
          IF r = NoRoom THEN AfterCleanup(me)
          ELSE IF RoomIsEmpty(heap[r])
          THEN [me EXCEPT !.pc = "delete"]
          ELSE AfterCleanup(me)]
  /\ UNCHANGED <<rooms, heap, groups, clock, conn, accepted, lim>>

\* cleanup_room_if_empty: try: del rooms[rid] except KeyError: pass
CleanupDelete(t) ==
  /\ th[t].pc = "delete"
  /\ rooms' = DictDel(rooms, th[t].rid)
  /\ th' = [th EXCEPT ![t] = AfterCleanup(th[t])]
  /\ LET r == get_room(th[t].rid)
     IN IF r # NoRoom /\ \A u \in DOMAIN th \ {t} : th[u].room # r
        THEN /\ heap' = [heap EXCEPT ![r] = Collected(@)]
             /\ accepted' = [accepted EXCEPT ![r] = <<>>]
        ELSE UNCHANGED <<heap, accepted>>
  /\ UNCHANGED <<groups, clock, conn, lim>>

\* ------------------------------------------------------------ start_game
\* mutant: any member of the room may start the game
NotHost_MemberOk(room, sid) == sid \notin DOMAIN room.players

\* room.host_sid != sid
NotHost(room, sid) == room.host_sid # sid

\* on_start_game up to the lock: lookup and host check
StartGame(t, s, rid, ai) ==
  /\ Idle(t) /\ conn[s] = "up"
  /\ LET me == [Begin(t, "start_game", s) EXCEPT !.rid = rid, !.ai = ai]
     IN th' = [th EXCEPT ![t] =
          IF get_room(rid) = NoRoom
          THEN Ret(EmitSelf(me, "error", [reason |-> "room not found"]), "error")
          ELSE IF NotHost(heap[get_room(rid)], s)
          THEN Ret(EmitSelf(me, "error", [reason |-> "only host can start game"]),
                   "error")
          ELSE [me EXCEPT !.pc = "lock", !.room = get_room(rid)]]
  /\ UNCHANGED <<rooms, heap, groups, clock, conn, accepted, lim>>

\* mutant: the client's ai_mode is honoured
StartFlags_HonorAi(room, ai) == [room EXCEPT !.game_started = TRUE, !.ai_mode = ai]

\* mutant: start_game toggles game_started
StartFlags_Toggle(room, ai) ==
  [room EXCEPT !.game_started = ~room.game_started, !.ai_mode = FALSE]

\* the flags of a room after start_game asked with ai_mode = ai
StartFlags(room, ai) == [room EXCEPT !.game_started = TRUE, !.ai_mode = FALSE]

\* the body of `with room.lock` in on_start_game
StartBody(t) ==
  /\ th[t].pc = "body" /\ th[t].op = "start_game"
  /\ heap' = [heap EXCEPT ![th[t].room] = [StartFlags(@, th[t].ai) EXCEPT !.lock = 0]]
  /\ th' = [th EXCEPT ![t].pc = "started"]
  /\ UNCHANGED <<rooms, groups, clock, conn, accepted, lim>>

\* socketio.emit("game_started", {room_id, ai_mode: room.ai_mode}, room=rid)
StartReply(t) ==
  /\ th[t].pc = "started"
  /\ LET me == th[t]
     IN th' = [th EXCEPT ![t] =
          Ret(EmitRoom(me, "game_started",
                       [room_id |-> me.rid, ai_mode |-> heap[me.room].ai_mode],
                       me.rid),
              "game_started")]
  /\ UNCHANGED <<rooms, heap, groups, clock, conn, accepted, lim>>

\* ------------------------------------------------------------ spawn
RECURSIVE SumLen(_)
SumLen(ss) == IF ss = <<>> THEN 0 ELSE Len(Head(ss)) + SumLen(Tail(ss))
\* the number of spawn entries appended so far, over all rooms
TotalAccepted == SumLen(accepted)

\* on_spawn up to the lock: payload check and lookup
Spawn(t, s, rid, data) ==
  /\ Idle(t) /\ conn[s] = "up"
  /\ TotalAccepted < lim.spawns
  /\ LET me == [Begin(t, "spawn", s) EXCEPT !.rid = rid, !.data = data]
     IN th' = [th EXCEPT ![t] =
          IF rid = NoRid \/ data.char = "" \/ data.x = None \/ data.y = None
          THEN Ret(EmitSelf(me, "spawn_failed", [reason |-> "invalid payload"]),
                   "spawn_failed")
          ELSE IF get_room(rid) = NoRoom
          THEN Ret(EmitSelf(me, "spawn_failed", [reason |-> "room not found"]),
                   "spawn_failed")
          ELSE [me EXCEPT !.pc = "lock", !.room = get_room(rid)]]
  /\ UNCHANGED <<rooms, heap, groups, clock, conn, accepted, lim>>

\* the body of `with room.lock` in on_spawn
SpawnBody(t) ==
  /\ th[t].pc = "body" /\ th[t].op = "spawn"
  /\ LET me == th[t]
         room == heap[me.room]
         now == clock
         fx == ToFloat(me.data.x)
         fy == ToFloat(me.data.y)
         stamped == [room EXCEPT !.players[me.sid].last_spawn_ts = now, !.lock = 0]
         entry == [from |-> me.sid, char |-> me.data.char, x |-> fx.v, y |-> fy.v,
                   meta |-> me.data.meta, ts |-> now]
     IN IF me.sid \notin DOMAIN room.players
        THEN /\ heap' = [heap EXCEPT ![me.room].lock = 0]
             /\ th' = [th EXCEPT ![t] =
                  Ret(EmitSelf(me, "spawn_failed", [reason |-> "not in room"]),
                      "spawn_failed")]
             /\ UNCHANGED accepted
        ELSE IF CooldownActive(now, room.players[me.sid].last_spawn_ts)
        THEN /\ heap' = [heap EXCEPT ![me.room].lock = 0]
             /\ th' = [th EXCEPT ![t] =
                  Ret(EmitSelf([me EXCEPT !.now = now], "spawn_rejected",
                               [reason |-> "spawn cooldown"]),
                      "spawn_rejected")]
             /\ UNCHANGED accepted
        ELSE IF ~fx.ok \/ ~fy.ok
        THEN /\ heap' = [heap EXCEPT ![me.room] = stamped]
             /\ th' = [th EXCEPT ![t] =
                  Ret(EmitSelf([me EXCEPT !.now = now], "spawn_failed",
                               [reason |-> "invalid coords"]),
                      "spawn_failed")]
             /\ UNCHANGED accepted
        ELSE /\ heap' = [heap EXCEPT ![me.room] =
                           [stamped EXCEPT !.last_spawns = AppendBounded(@, entry)]]
             /\ accepted' = [accepted EXCEPT ![me.room] = Append(@, entry)]
             /\ th' = [th EXCEPT ![t] =
                  [me EXCEPT !.pc = "spawned", !.now = now, !.fx = fx.v, !.fy = fy.v]]
  /\ UNCHANGED <<rooms, groups, clock, conn, lim>>

\* socketio.emit("spawn_broadcast", ..., room=rid, include_self=False);
\* emit("spawn_ack", ...)
SpawnReply(t) ==
  /\ th[t].pc = "spawned"
  /\ LET me == th[t]
         mod == canonical_mirror_coords(me.fx, me.fy)
         m1 == EmitOthers(me, "spawn_broadcast",
                          [from_sid |-> me.sid, char |-> me.data.char,
                           x |-> mod.x, y |-> mod.y, meta |-> me.data.meta,
                           mirror |-> TRUE],
                          me.rid)
         m2 == EmitSelf(m1, "spawn_ack",
                        [from_sid |-> me.sid, char |-> me.data.char,
                         x |-> me.fx, y |-> me.fy, meta |-> me.data.meta,
                         mirror |-> FALSE])
     IN th' = [th EXCEPT ![t] = Ret(m2, "spawn_ack")]
  /\ UNCHANGED <<rooms, heap, groups, clock, conn, accepted, lim>>

\* ------------------------------------------------------------ get_room_state
\* on_get_room_state up to the lock
GetRoomState(t, s, rid) ==
  /\ Idle(t) /\ conn[s] = "up"
  /\ LET me == [Begin(t, "get_room_state", s) EXCEPT !.rid = rid]
     IN th' = [th EXCEPT ![t] =
          IF get_room(rid) = NoRoom
          THEN Ret(EmitSelf(me, "room_state", [error |-> "room not found"]),
                   "room_state_error")
          ELSE [me EXCEPT !.pc = "lock", !.room = get_room(rid)]]
  /\ UNCHANGED <<rooms, heap, groups, clock, conn, accepted, lim>>

\* the body of `with room.lock` in on_get_room_state
GetRoomStateBody(t) ==
  /\ th[t].pc = "body" /\ th[t].op = "get_room_state"
  /\ LET me == th[t]
         room == heap[me.room]
     IN /\ heap' = [heap EXCEPT ![me.room].lock = 0]
        /\ th' = [th EXCEPT ![t] =
             Ret(EmitSelf(me, "room_state",
                          [id |-> room.id, players |-> PlayerList(room.players),
                           game_started |-> room.game_started,
                           ai_mode |-> room.ai_mode,
                           last_spawns |-> LastN(room.last_spawns, STATE_HISTORY)]),
                 "room_state")]
  /\ UNCHANGED <<rooms, groups, clock, conn, accepted, lim>>

\* ------------------------------------------------------------ specification
RidInputs == lim.ids \cup {NoRid}

Next ==
  \/ Tick
  \/ \E s \in Sessions : Connect(s)
  \/ \E t \in DOMAIN th : Acquire(t)
  \/ \E t \in DOMAIN th : Return(t)
  \/ \E t \in DOMAIN th, s \in Sessions, n \in lim.names : CreateRoom(t, s, n)
  \/ \E t \in DOMAIN th : CreateRoomReply(t)
  \/ \E t \in DOMAIN th, s \in Sessions, r \in RidInputs, n \in lim.names :
        JoinRoom(t, s, r, n)
  \/ \E t \in DOMAIN th : JoinBody(t)
  \/ \E t \in DOMAIN th : JoinReply(t)
  \/ \E t \in DOMAIN th, s \in Sessions, r \in RidInputs : LeaveRoom(t, s, r)
  \/ \E t \in DOMAIN th, s \in Sessions : Disconnect(t, s)
  \/ \E t \in DOMAIN th : DisconnectScan(t)
  \/ \E t \in DOMAIN th : LeaveBody(t)
  \/ \E t \in DOMAIN th : CleanupCheck(t)
  \/ \E t \in DOMAIN th : CleanupDelete(t)
  \/ \E t \in DOMAIN th, s \in Sessions, r \in RidInputs, ai \in BOOLEAN :
        StartGame(t, s, r, ai)
  \/ \E t \in DOMAIN th : StartBody(t)
  \/ \E t \in DOMAIN th : StartReply(t)
  \/ \E t \in DOMAIN th, s \in Sessions, r \in RidInputs, d \in SpawnInputs :
        Spawn(t, s, r, d)
  \/ \E t \in DOMAIN th : SpawnBody(t)
  \/ \E t \in DOMAIN th : SpawnReply(t)
  \/ \E t \in DOMAIN th, s \in Sessions, r \in RidInputs : GetRoomState(t, s, r)
  \/ \E t \in DOMAIN th : GetRoomStateBody(t)

Spec == Init /\ [][Next]_vars

\* Room lifecycle over two rooms: no spawn, no clock
InitRooms ==
  /\ Start({1})
  /\ lim = [ids |-> RoomIds, reuse |-> FALSE, rooms |-> Cardinality(RoomIds),
            names |-> Names, time |-> StartTime, spawns |-> 0, snap |-> TRUE]

NextRooms ==
  \/ \E s \in Sessions : Connect(s)
  \/ \E t \in DOMAIN th : Acquire(t)
  \/ \E t \in DOMAIN th : Return(t)
  \/ \E t \in DOMAIN th, s \in Sessions, n \in lim.names : CreateRoom(t, s, n)
  \/ \E t \in DOMAIN th : CreateRoomReply(t)
  \/ \E t \in DOMAIN th, s \in Sessions, r \in RidInputs, n \in lim.names :
        JoinRoom(t, s, r, n)
  \/ \E t \in DOMAIN th : JoinBody(t)
  \/ \E t \in DOMAIN th : JoinReply(t)
  \/ \E t \in DOMAIN th, s \in Sessions, r \in RidInputs : LeaveRoom(t, s, r)
  \/ \E t \in DOMAIN th, s \in Sessions : Disconnect(t, s)
  \/ \E t \in DOMAIN th : DisconnectScan(t)
  \/ \E t \in DOMAIN th : LeaveBody(t)
  \/ \E t \in DOMAIN th : CleanupCheck(t)
  \/ \E t \in DOMAIN th : CleanupDelete(t)
  \/ \E t \in DOMAIN th, s \in Sessions, r \in RidInputs, ai \in BOOLEAN :
        StartGame(t, s, r, ai)
  \/ \E t \in DOMAIN th : StartBody(t)
  \/ \E t \in DOMAIN th : StartReply(t)
  \/ \E t \in DOMAIN th, s \in Sessions, r \in RidInputs : GetRoomState(t, s, r)
  \/ \E t \in DOMAIN th : GetRoomStateBody(t)

SpecRooms == InitRooms /\ [][NextRooms]_vars

\* One client spawning as fast as the cooldown allows, past the history cap
ValidSpawn == [char |-> "knight", x |-> Num(100), y |-> Num(600), meta |-> "m"]

InitHist ==
  /\ Start({1})
  /\ lim = [ids |-> {1}, reuse |-> FALSE, rooms |-> 1, names |-> {"A"},
            time |-> StartTime + SPAWN_COOLDOWN_SEC * HistSpawns,
            spawns |-> HistSpawns, snap |-> TRUE]

\* the cooldown passes once a spawn was accepted at the present time
TickCooldown ==
  /\ clock < lim.time
  /\ \A t \in DOMAIN th : Idle(t)
  /\ \E i \in 1..Len(accepted) :
        accepted[i] # <<>> /\ accepted[i][Len(accepted[i])].ts = clock
  /\ clock' = clock + SPAWN_COOLDOWN_SEC
  /\ UNCHANGED <<rooms, heap, groups, conn, th, accepted, lim>>

NextHist ==
  \/ TickCooldown
  \/ \E s \in Sessions : Connect(s)
  \/ \E t \in DOMAIN th : Acquire(t)
  \/ \E t \in DOMAIN th : Return(t)
  \/ \E t \in DOMAIN th, s \in Sessions, n \in lim.names : CreateRoom(t, s, n)
  \/ \E t \in DOMAIN th : CreateRoomReply(t)
  \/ \E t \in DOMAIN th, s \in Sessions, r \in lim.ids : Spawn(t, s, r, ValidSpawn)
  \/ \E t \in DOMAIN th : SpawnBody(t)
  \/ \E t \in DOMAIN th : SpawnReply(t)

SpecHist == InitHist /\ [][NextHist]_vars

\* The same client, and room state queries at any point of the history
NextState ==
  \/ TickCooldown
  \/ \E s \in Sessions : Connect(s)
  \/ \E t \in DOMAIN th : Acquire(t)
  \/ \E t \in DOMAIN th : Return(t)
  \/ \E t \in DOMAIN th, s \in Sessions, n \in lim.names : CreateRoom(t, s, n)
  \/ \E t \in DOMAIN th : CreateRoomReply(t)
  \/ \E t \in DOMAIN th, s \in Sessions, r \in lim.ids : Spawn(t, s, r, ValidSpawn)
  \/ \E t \in DOMAIN th : SpawnBody(t)
  \/ \E t \in DOMAIN th : SpawnReply(t)
  \/ \E t \in DOMAIN th, s \in Sessions, r \in RidInputs : GetRoomState(t, s, r)
  \/ \E t \in DOMAIN th : GetRoomStateBody(t)

SpecState == InitHist /\ [][NextState]_vars

\* One spawn, at any of the positions of MirrorInputs
InitMirror ==
  /\ Start({1})
  /\ lim = [ids |-> {1}, reuse |-> FALSE, rooms |-> 1, names |-> {"A"},
            time |-> StartTime, spawns |-> 1, snap |-> TRUE]

NextMirror ==
  \/ \E s \in Sessions : Connect(s)
  \/ \E t \in DOMAIN th : Acquire(t)
  \/ \E t \in DOMAIN th : Return(t)
  \/ \E t \in DOMAIN th, s \in Sessions, n \in lim.names : CreateRoom(t, s, n)
  \/ \E t \in DOMAIN th : CreateRoomReply(t)
  \/ \E t \in DOMAIN th, s \in Sessions, r \in lim.ids, d \in MirrorInputs :
        Spawn(t, s, r, d)
  \/ \E t \in DOMAIN th : SpawnBody(t)
  \/ \E t \in DOMAIN th : SpawnReply(t)

SpecMirror == InitMirror /\ [][NextMirror]_vars

\* Two handler threads on one room: joining, leaving, disconnecting
InitConc ==
  /\ Start({1, 2})
  /\ lim = [ids |-> {1}, reuse |-> FALSE, rooms |-> 1, names |-> {"A"},
            time |-> StartTime, spawns |-> 0, snap |-> FALSE]

NextConc ==
  \/ \E s \in Sessions : Connect(s)
  \/ \E t \in DOMAIN th : Acquire(t)
  \/ \E t \in DOMAIN th : Return(t)
  \/ \E t \in DOMAIN th, s \in Sessions, n \in lim.names : CreateRoom(t, s, n)
  \/ \E t \in DOMAIN th : CreateRoomReply(t)
  \/ \E t \in DOMAIN th, s \in Sessions, r \in RidInputs, n \in lim.names :
        JoinRoom(t, s, r, n)
  \/ \E t \in DOMAIN th : JoinBody(t)
  \/ \E t \in DOMAIN th : JoinReply(t)
  \/ \E t \in DOMAIN th, s \in Sessions, r \in RidInputs : LeaveRoom(t, s, r)
  \/ \E t \in DOMAIN th, s \in Sessions : Disconnect(t, s)
  \/ \E t \in DOMAIN th : DisconnectScan(t)
  \/ \E t \in DOMAIN th : LeaveBody(t)
  \/ \E t \in DOMAIN th : CleanupCheck(t)
  \/ \E t \in DOMAIN th : CleanupDelete(t)

SpecConc == InitConc /\ [][NextConc]_vars

\* Two handler threads on two rooms: every handler that changes a room, for
\* the events of one client, which the server handles concurrently
LockSessions == {"s1"}

InitLocks ==
  /\ Start({1, 2})
  /\ lim = [ids |-> RoomIds, reuse |-> FALSE, rooms |-> Cardinality(RoomIds),
            names |-> {"A"}, time |-> StartTime, spawns |-> 1, snap |-> FALSE]

NextLocks ==
  \/ \E s \in LockSessions : Connect(s)
  \/ \E t \in DOMAIN th : Acquire(t)
  \/ \E t \in DOMAIN th : Return(t)
  \/ \E t \in DOMAIN th, s \in LockSessions, n \in lim.names : CreateRoom(t, s, n)
  \/ \E t \in DOMAIN th : CreateRoomReply(t)
  \/ \E t \in DOMAIN th, s \in LockSessions, r \in lim.ids, n \in lim.names :
        JoinRoom(t, s, r, n)
  \/ \E t \in DOMAIN th : JoinBody(t)
  \/ \E t \in DOMAIN th : JoinReply(t)
  \/ \E t \in DOMAIN th, s \in LockSessions, r \in lim.ids : LeaveRoom(t, s, r)
  \/ \E t \in DOMAIN th, s \in LockSessions : Disconnect(t, s)
  \/ \E t \in DOMAIN th : DisconnectScan(t)
  \/ \E t \in DOMAIN th : LeaveBody(t)
  \/ \E t \in DOMAIN th : CleanupCheck(t)
  \/ \E t \in DOMAIN th : CleanupDelete(t)
  \/ \E t \in DOMAIN th, s \in LockSessions, r \in lim.ids : StartGame(t, s, r, TRUE)
  \/ \E t \in DOMAIN th : StartBody(t)
  \/ \E t \in DOMAIN th : StartReply(t)
  \/ \E t \in DOMAIN th, s \in LockSessions, r \in lim.ids : Spawn(t, s, r, ValidSpawn)
  \/ \E t \in DOMAIN th : SpawnBody(t)
  \/ \E t \in DOMAIN th : SpawnReply(t)

SpecLocks == InitLocks /\ [][NextLocks]_vars

\* Room ids as uuid4().hex[:8] yields them: an id may come again
InitIds ==
  /\ Start({1})
  /\ lim = [ids |-> {1}, reuse |-> TRUE, rooms |-> MaxRooms, names |-> {"A"},
            time |-> StartTime, spawns |-> 1, snap |-> TRUE]

NextIds ==
  \/ \E s \in Sessions : Connect(s)
  \/ \E t \in DOMAIN th : Acquire(t)
  \/ \E t \in DOMAIN th : Return(t)
  \/ \E t \in DOMAIN th, s \in Sessions, n \in lim.names : CreateRoom(t, s, n)
  \/ \E t \in DOMAIN th : CreateRoomReply(t)
  \/ \E t \in DOMAIN th, s \in Sessions, r \in RidInputs, n \in lim.names :
        JoinRoom(t, s, r, n)
  \/ \E t \in DOMAIN th : JoinBody(t)
  \/ \E t \in DOMAIN th : JoinReply(t)
  \/ \E t \in DOMAIN th, s \in Sessions, r \in RidInputs : LeaveRoom(t, s, r)
  \/ \E t \in DOMAIN th : LeaveBody(t)
  \/ \E t \in DOMAIN th : CleanupCheck(t)
  \/ \E t \in DOMAIN th : CleanupDelete(t)
  \/ \E t \in DOMAIN th, s \in Sessions, r \in RidInputs, ai \in BOOLEAN :
        StartGame(t, s, r, ai)
  \/ \E t \in DOMAIN th : StartBody(t)
  \/ \E t \in DOMAIN th : StartReply(t)
  \/ \E t \in DOMAIN th, s \in Sessions, r \in RidInputs : Spawn(t, s, r, ValidSpawn)
  \/ \E t \in DOMAIN th : SpawnBody(t)
  \/ \E t \in DOMAIN th : SpawnReply(t)
  \/ \E t \in DOMAIN th, s \in Sessions, r \in RidInputs : GetRoomState(t, s, r)
  \/ \E t \in DOMAIN th : GetRoomStateBody(t)

SpecIds == InitIds /\ [][NextIds]_vars


\* ------------------------------------------------------------ properties
\* the members of the room registered under rid
Members(rid) == DOMAIN heap[rooms[rid]].players
\* the room registered under rid when the handler of `me` started
PreRoom(me, rid) == me.pre.heap[me.pre.rooms[rid]]
PreMembers(me, rid) == DOMAIN PreRoom(me, rid).players
\* thread t has run a handler `op` to its end
Finished(t, op) == th[t].pc = "done" /\ th[t].op = op
Quiet == \A t \in DOMAIN th : th[t].pc \in {"idle", "done"}

\* C1: every session id is a key of the players map of at most one registered
\* room.
C1_OneRoomPerSession ==
  \A s \in Sessions : Cardinality({rid \in DOMAIN rooms : s \in Members(rid)}) <= 1

\* C2: when leave_room or disconnect has removed the last player of a room,
\* the room id is out of the registry once the handler has returned; and with
\* no handler in progress no registered room has zero players.
C2_EmptiedRoomIsDeleted ==
  /\ \A t \in DOMAIN th :
        th[t].pc = "done" /\ th[t].op \in {"leave_room", "disconnect"} =>
          \A rid \in DOMAIN th[t].pre.rooms :
            ( /\ th[t].op = "leave_room" => rid = th[t].rid
              /\ PreMembers(th[t], rid) = {th[t].sid} )
            => rid \notin DOMAIN rooms
  /\ Quiet => \A rid \in DOMAIN rooms : Members(rid) # {}

C2_Witness ==
  \E t \in DOMAIN th :
    /\ Finished(t, "leave_room")
    /\ th[t].rid \in DOMAIN th[t].pre.rooms
    /\ PreMembers(th[t], th[t].rid) = {th[t].sid}
    /\ th[t].rid \notin DOMAIN rooms

\* C10: disconnect(s) takes s out of every room that contains s, tells the
\* remaining members of each such room player_left{sid, name}, keeps the
\* rooms that still have another player, and takes the rooms it emptied out
\* of the registry; afterwards s is a member of no room.
C10_Disconnect ==
  \A t \in DOMAIN th :
    Finished(t, "disconnect") =>
      LET me == th[t]
          s == th[t].sid
      IN /\ \A rid \in DOMAIN rooms : s \notin Members(rid)
         /\ DOMAIN rooms \subseteq DOMAIN me.pre.rooms
         /\ \A rid \in DOMAIN me.pre.rooms :
              LET P == PreMembers(me, rid)
              IN /\ P \ {s} # {} =>
                      /\ rid \in DOMAIN rooms
                      /\ rooms[rid] = me.pre.rooms[rid]
                      /\ Members(rid) = P \ {s}
                 /\ P = {s} => rid \notin DOMAIN rooms
                 /\ s \in P =>
                      \E i \in 1..Len(me.out) :
                        me.out[i] = Msg("player_left", P \ {s},
                                        [sid |-> s,
                                         name |-> PreRoom(me, rid).players[s].name])
         /\ Len(me.out) =
              Cardinality({rid \in DOMAIN me.pre.rooms : s \in PreMembers(me, rid)})

C10_Witness ==
  \E t \in DOMAIN th :
    /\ Finished(t, "disconnect")
    /\ \E r1, r2 \in DOMAIN th[t].pre.rooms :
         /\ PreMembers(th[t], r1) = {th[t].sid}
         /\ th[t].sid \in PreMembers(th[t], r2)
         /\ PreMembers(th[t], r2) # {th[t].sid}
         /\ r1 \notin DOMAIN rooms
         /\ r2 \in DOMAIN rooms

\* C8: a join_room by a session that is already a member of the room (as after
\* join_room(room, s, n)) is an update in place: the member set is the same,
\* s has one entry, under the new name, and nothing else of the room changes.
C8_RejoinUpdatesName ==
  \A t \in DOMAIN th :
    ( /\ Finished(t, "join_room")
      /\ th[t].res = "joined_room"
      /\ th[t].rid \in DOMAIN th[t].pre.rooms
      /\ th[t].sid \in PreMembers(th[t], th[t].rid) )
    => LET me == th[t]
           old == PreRoom(me, me.rid).players
       IN /\ me.rid \in DOMAIN rooms
          /\ rooms[me.rid] = me.pre.rooms[me.rid]
          /\ Members(me.rid) = DOMAIN old
          /\ heap[rooms[me.rid]].players[me.sid] = [old[me.sid] EXCEPT !.name = me.name]
          /\ \A q \in DOMAIN old \ {me.sid} : heap[rooms[me.rid]].players[q] = old[q]
          /\ me.out[Len(me.out)].event = "joined_room"
          /\ {p \in me.out[Len(me.out)].body.players : p.sid = me.sid}
               = {[sid |-> me.sid, name |-> me.name]}

C8_Witness ==
  \E t \in DOMAIN th :
    /\ Finished(t, "join_room")
    /\ th[t].res = "joined_room"
    /\ th[t].rid \in DOMAIN th[t].pre.rooms
    /\ th[t].sid \in PreMembers(th[t], th[t].rid)
    /\ PreRoom(th[t], th[t].rid).players[th[t].sid].name # th[t].name
    /\ Cardinality(Members(th[t].rid)) = 2

\* C6: start_game on an existing room: a caller that is not the host gets the
\* NotHost error and the flags stay; for the host game_started becomes true,
\* ai_mode false whatever was asked, and game_started{ai_mode: false} goes to
\* the whole room. ai_mode is false in every room, always.
C6_StartGame ==
  /\ \A i \in 1..Len(heap) : heap[i].ai_mode = FALSE
  /\ \A t \in DOMAIN th :
        (Finished(t, "start_game") /\ th[t].rid \in DOMAIN th[t].pre.rooms) =>
          LET me == th[t]
              r0 == PreRoom(me, me.rid)
              r1 == heap[me.pre.rooms[me.rid]]
          IN IF me.sid # r0.host_sid
             THEN /\ me.out = <<Msg("error", {me.sid},
                                    [reason |-> "only host can start game"])>>
                  /\ r1.game_started = r0.game_started
                  /\ r1.ai_mode = r0.ai_mode
             ELSE /\ r1.game_started = TRUE
                  /\ r1.ai_mode = FALSE
                  /\ me.out = <<Msg("game_started", DOMAIN r1.players,
                                    [room_id |-> me.rid, ai_mode |-> FALSE])>>

C6_Witness ==
  \E t \in DOMAIN th :
    /\ Finished(t, "start_game")
    /\ th[t].res = "game_started"
    /\ th[t].ai = TRUE
    /\ Cardinality(Members(th[t].rid)) = 2

\* C7: game_started of a room never goes back from true to false while the
\* room is in the registry.
C7_GameStartedMonotonic ==
  [][\A rid \in DOMAIN rooms :
       ( /\ rid \in DOMAIN rooms'
         /\ rooms'[rid] = rooms[rid]
         /\ heap[rooms[rid]].game_started )
       => heap'[rooms[rid]].game_started]_vars

C7_Witness ==
  \E t \in DOMAIN th :
    /\ th[t].pc = "done"
    /\ th[t].op \in {"join_room", "leave_room", "start_game", "spawn"}
    /\ th[t].rid \in DOMAIN th[t].pre.rooms
    /\ PreRoom(th[t], th[t].rid).game_started
    /\ th[t].rid \in DOMAIN rooms
    /\ heap[rooms[th[t].rid]].game_started

\* C3: an accepted spawn of s in room r produces two messages: spawn_ack to s
\* alone with the coordinates s sent, and spawn_broadcast with the mirrored
\* coordinates to every other member of r; s does not get the broadcast.
C3_SpawnMessages ==
  \A t \in DOMAIN th :
    (Finished(t, "spawn") /\ th[t].res = "spawn_ack") =>
      LET me == th[t]
          fx == ToFloat(me.data.x).v
          fy == ToFloat(me.data.y).v
          mir == canonical_mirror_coords(fx, fy)
      IN /\ me.rid \in DOMAIN rooms
         /\ Len(me.out) = 2
         /\ {me.out[1], me.out[2]} =
              { Msg("spawn_ack", {me.sid},
                    [from_sid |-> me.sid, char |-> me.data.char, x |-> fx, y |-> fy,
                     meta |-> me.data.meta, mirror |-> FALSE]),
                Msg("spawn_broadcast", Members(me.rid) \ {me.sid},
                    [from_sid |-> me.sid, char |-> me.data.char, x |-> mir.x,
                     y |-> mir.y, meta |-> me.data.meta, mirror |-> TRUE]) }
         /\ \A i \in 1..2 :
              me.out[i].event = "spawn_broadcast" => me.sid \notin me.out[i].to

C3_Witness ==
  \E t \in DOMAIN th :
    /\ Finished(t, "spawn")
    /\ th[t].res = "spawn_ack"
    /\ Members(th[t].rid) \ {th[t].sid} # {}
    /\ \E i \in 1..2 : /\ th[t].out[i].event = "spawn_broadcast"
                        /\ th[t].out[i].body.y # th[t].fy

\* a spawn payload with room_id, char, x and y present
Complete(me) ==
  me.rid # NoRid /\ me.data.char # "" /\ me.data.x # None /\ me.data.y # None

\* the caller of `me` was a member when the handler started, and its
\* last_spawn_ts was the time of a spawn of its own that was accepted
AfterAcceptedSpawn(me) ==
  /\ me.rid \in DOMAIN me.pre.rooms
  /\ me.sid \in PreMembers(me, me.rid)
  /\ \E i \in 1..Len(PreRoom(me, me.rid).last_spawns) :
       /\ PreRoom(me, me.rid).last_spawns[i].from = me.sid
       /\ PreRoom(me, me.rid).last_spawns[i].ts =
            PreRoom(me, me.rid).players[me.sid].last_spawn_ts

\* C4: a spawn call that comes less than the cooldown after an accepted spawn
\* of the same session in the same room is answered spawn_rejected, appends
\* nothing to the history and leaves last_spawn_ts at the time of the
\* accepted spawn.
C4_CooldownRejects ==
  \A t \in DOMAIN th :
    ( /\ Finished(t, "spawn")
      /\ Complete(th[t])
      /\ AfterAcceptedSpawn(th[t])
      /\ th[t].now - PreRoom(th[t], th[t].rid).players[th[t].sid].last_spawn_ts
            < SPAWN_COOLDOWN_SEC )
    => LET me == th[t]
           r0 == PreRoom(me, me.rid)
           r1 == heap[me.pre.rooms[me.rid]]
       IN /\ me.out = <<Msg("spawn_rejected", {me.sid}, [reason |-> "spawn cooldown"])>>
          /\ r1.last_spawns = r0.last_spawns
          /\ me.sid \in DOMAIN r1.players
          /\ r1.players[me.sid].last_spawn_ts = r0.players[me.sid].last_spawn_ts

C4_Witness ==
  \E t \in DOMAIN th :
    /\ Finished(t, "spawn")
    /\ Complete(th[t])
    /\ AfterAcceptedSpawn(th[t])
    /\ th[t].res = "spawn_rejected"
    /\ th[t].now > PreRoom(th[t], th[t].rid).players[th[t].sid].last_spawn_ts

FailureResults ==
  {"join_failed", "spawn_failed", "spawn_rejected", "error", "room_state_error"}

\* C5: a handler that ends in a failure response leaves the registry and every
\* field of every room as they were when it started, and its response goes to
\* the calling session only.
C5_FailureIsNoOp ==
  \A t \in DOMAIN th :
    (th[t].pc = "done" /\ th[t].res \in FailureResults) =>
      /\ rooms = th[t].pre.rooms
      /\ heap = th[t].pre.heap
      /\ \A i \in 1..Len(th[t].out) : th[t].out[i].to = {th[t].sid}

\* C9: a room's history never holds more than HISTORY_CAP entries, and it is
\* the last HISTORY_CAP accepted spawn entries of the room, in the order they
\* were accepted.
C9_HistoryBounded ==
  \A i \in 1..Len(heap) :
    /\ Len(heap[i].last_spawns) <= HISTORY_CAP
    /\ heap[i].last_spawns = LastN(accepted[i], HISTORY_CAP)

C9_Witness ==
  \E i \in 1..Len(heap) :
    /\ Len(accepted[i]) = HistSpawns
    /\ Len(heap[i].last_spawns) = HISTORY_CAP
    /\ heap[i].last_spawns[1] = accepted[i][HistSpawns - HISTORY_CAP + 1]

\* C11: any two spawn entries of one session accepted in one room have
\* acceptance times at least the cooldown apart, whatever the session did in
\* between.
C11_CooldownSpacing ==
  \A r \in 1..Len(accepted) :
    \A i, j \in 1..Len(accepted[r]) :
      (i < j /\ accepted[r][i].from = accepted[r][j].from) =>
        accepted[r][j].ts - accepted[r][i].ts >= SPAWN_COOLDOWN_SEC

\* C12: get_room_state on a registered room leaves the registry and every
\* field of every room as they were, and answers the caller alone with the
\* room's id, members, game_started, ai_mode and the last
\* min(STATE_HISTORY, length) history entries, in their stored order.
C12_GetRoomState ==
  \A t \in DOMAIN th :
    (Finished(t, "get_room_state") /\ th[t].rid \in DOMAIN th[t].pre.rooms) =>
      LET me == th[t]
          room == PreRoom(me, me.rid)
          h == room.last_spawns
          n == IF Len(h) < STATE_HISTORY THEN Len(h) ELSE STATE_HISTORY
      IN /\ rooms = me.pre.rooms
         /\ heap = me.pre.heap
         /\ Len(me.out) = 1
         /\ me.out[1].event = "room_state"
         /\ me.out[1].to = {me.sid}
         /\ me.out[1].body.id = me.rid
         /\ me.out[1].body.players =
              {[sid |-> q, name |-> room.players[q].name] : q \in DOMAIN room.players}
         /\ me.out[1].body.game_started = room.game_started
         /\ me.out[1].body.ai_mode = room.ai_mode
         /\ Len(me.out[1].body.last_spawns) = n
         /\ \A k \in 1..n : me.out[1].body.last_spawns[k] = h[Len(h) - n + k]

C12_Witness ==
  \E t \in DOMAIN th :
    /\ Finished(t, "get_room_state")
    /\ th[t].rid \in DOMAIN th[t].pre.rooms
    /\ Len(PreRoom(th[t], th[t].rid).last_spawns) > STATE_HISTORY
    /\ Len(th[t].out[1].body.last_spawns) = STATE_HISTORY
    /\ th[t].out[1].body.last_spawns[1] # PreRoom(th[t], th[t].rid).last_spawns[1]

\* the id rid was taken out of the registry: a RoomState that had it is gone
WasDeleted(rid, objects) ==
  \E i \in 1..Len(objects) : objects[i] = RoomState(rid, "")

\* C13: once a room id is out of the registry, a join_room, start_game, spawn
\* or get_room_state that begins afterwards with that id is answered room not
\* found and changes nothing, and the id is never a key of the registry again.
C13_StaleIdFails ==
  /\ \A t \in DOMAIN th :
        ( /\ th[t].pc = "done"
          /\ th[t].op \in {"join_room", "start_game", "spawn", "get_room_state"}
          /\ th[t].op = "spawn" => Complete(th[t])
          /\ th[t].rid # NoRid
          /\ WasDeleted(th[t].rid, th[t].pre.heap) )
        => /\ Len(th[t].out) = 1
           /\ th[t].out[1].to = {th[t].sid}
           /\ th[t].out[1].body \in {[reason |-> "room not found"],
                                      [error |-> "room not found"]}
           /\ rooms = th[t].pre.rooms
           /\ heap = th[t].pre.heap
  /\ \A rid \in DOMAIN rooms : ~WasDeleted(rid, heap)

\* C18: create_room succeeds with an id that was not a key of the registry;
\* it adds one room, whose only player and whose host is the caller, and
\* every room that was registered is still registered and as it was.
C18_CreateRoomFresh ==
  \A t \in DOMAIN th :
    Finished(t, "create_room") =>
      LET me == th[t]
      IN /\ me.res = "room_created"
         /\ me.rid \notin DOMAIN me.pre.rooms
         /\ DOMAIN rooms = DOMAIN me.pre.rooms \cup {me.rid}
         /\ \A r \in DOMAIN me.pre.rooms :
              /\ rooms[r] = me.pre.rooms[r]
              /\ heap[rooms[r]] = me.pre.heap[rooms[r]]
         /\ DOMAIN heap[rooms[me.rid]].players = {me.sid}
         /\ heap[rooms[me.rid]].host_sid = me.sid

\* the spawn_broadcast body of an accepted spawn: the mirrored position
Mirrored(me) == me.out[1].body
XRange == CANVAS_WIDTH - PLAYERSIZE
YRange == CANVAS_HEIGHT - PLAYERSIZE

\* C14: for a spawn at integer (x, y) the mirrored position is
\* x' = clamp(x, 0, CANVAS_WIDTH - PLAYERSIZE) and
\* y' = clamp(CANVAS_HEIGHT - y - PLAYERSIZE, 0, CANVAS_HEIGHT - PLAYERSIZE);
\* both lie in their ranges, and x' = x when x is in range.
C14_MirrorClamps ==
  \A t \in DOMAIN th :
    (Finished(t, "spawn") /\ th[t].res = "spawn_ack") =>
      LET x == th[t].data.x.v
          y == th[t].data.y.v
          flipped == CANVAS_HEIGHT - y - PLAYERSIZE
          m == Mirrored(th[t])
      IN /\ th[t].out[1].event = "spawn_broadcast"
         /\ m.x = IF x < 0 THEN 0 ELSE IF x > XRange THEN XRange ELSE x
         /\ m.y = IF flipped < 0 THEN 0 ELSE IF flipped > YRange THEN YRange
                  ELSE flipped
         /\ 0 <= m.x /\ m.x <= XRange
         /\ 0 <= m.y /\ m.y <= YRange
         /\ (0 <= x /\ x <= XRange) => m.x = x

C14_Witness ==
  \E t \in DOMAIN th :
    /\ Finished(t, "spawn")
    /\ th[t].res = "spawn_ack"
    /\ th[t].data.x.v > XRange
    /\ th[t].data.y.v < 0
    /\ Mirrored(th[t]) = [Mirrored(th[t]) EXCEPT !.x = XRange, !.y = YRange]

\* C15: for a spawn at (x, y) with 0 <= x <= CANVAS_WIDTH - PLAYERSIZE and
\* 0 <= y <= CANVAS_HEIGHT - PLAYERSIZE, mirroring the mirrored position gives
\* (x, y) back.
C15_MirrorTwice ==
  \A t \in DOMAIN th :
    ( /\ Finished(t, "spawn")
      /\ th[t].res = "spawn_ack"
      /\ 0 <= th[t].data.x.v /\ th[t].data.x.v <= XRange
      /\ 0 <= th[t].data.y.v /\ th[t].data.y.v <= YRange )
    => canonical_mirror_coords(Mirrored(th[t]).x, Mirrored(th[t]).y)
         = [x |-> th[t].data.x.v, y |-> th[t].data.y.v]

C15_Witness ==
  \E t \in DOMAIN th :
    /\ Finished(t, "spawn")
    /\ th[t].res = "spawn_ack"
    /\ th[t].data.x.v = 359
    /\ th[t].data.y.v = 1
    /\ Mirrored(th[t]).y = 599
    /\ canonical_mirror_coords(Mirrored(th[t]).x, Mirrored(th[t]).y).y = 1

\* the room `me` names was registered when the handler started, and its host
\* was not among its players: the host had left, others were still in
HostLeft(me) ==
  /\ me.rid \in DOMAIN me.pre.rooms
  /\ PreRoom(me, me.rid).host_sid \notin PreMembers(me, me.rid)

\* C17 as stated: once the host has left a room that still has players, no
\* start_game for the room succeeds, whichever session calls.
C17_NoStartAfterHostLeft ==
  \A t \in DOMAIN th :
    (Finished(t, "start_game") /\ HostLeft(th[t])) =>
      /\ th[t].res # "game_started"
      /\ heap[th[t].pre.rooms[th[t].rid]].game_started
           = PreRoom(th[t], th[t].rid).game_started

\* C17 as amended: once the host has left a room that still has players, a
\* start_game by any session but the one that created the room is refused
\* (only host can start game) and changes nothing; the session that created
\* the room, member or not, still starts the game.
C17_OnlyCreatorStarts ==
  \A t \in DOMAIN th :
    (Finished(t, "start_game") /\ HostLeft(th[t])) =>
      LET me == th[t]
          r0 == PreRoom(me, me.rid)
          r1 == heap[me.pre.rooms[me.rid]]
      IN IF me.sid # r0.host_sid
         THEN /\ me.out = <<Msg("error", {me.sid},
                                [reason |-> "only host can start game"])>>
              /\ heap = me.pre.heap
              /\ rooms = me.pre.rooms
         ELSE /\ me.res = "game_started"
              /\ r1.game_started

C17_Witness ==
  \E t \in DOMAIN th :
    /\ Finished(t, "start_game")
    /\ HostLeft(th[t])
    /\ th[t].sid \in PreMembers(th[t], th[t].rid)
    /\ th[t].res = "error"
    /\ ~heap[rooms[th[t].rid]].game_started

\* C16: a room is taken out of the registry only while its players map is
\* empty, also when a join_room runs alongside the leave_room or disconnect
\* that emptied the room.
C16_DeleteOnlyEmpty ==
  [][\A rid \in DOMAIN rooms :
       rid \notin DOMAIN rooms' => DOMAIN heap[rooms[rid]].players = {}]_vars

\* C20: when a join_room has ended with joined_room and the caller is still
\* a player of the RoomState it was added to, that RoomState is the one the
\* registry holds under the room id.
C20_NoOrphanedMember ==
  \A t \in DOMAIN th :
    ( /\ Finished(t, "join_room")
      /\ th[t].res = "joined_room"
      /\ th[t].sid \in DOMAIN heap[th[t].room].players )
    => /\ th[t].rid \in DOMAIN rooms
       /\ rooms[th[t].rid] = th[t].room

\* the fields of a RoomState that its lock protects
Guarded(room) ==
  <<room.players, room.game_started, room.ai_mode, room.last_spawns>>
\* the RoomStates whose lock thread t holds
Held(t) == {i \in 1..Len(heap) : heap[i].lock = t}
\* RoomState i is in the registry before and after the step
StaysRegistered(i) ==
  \E rid \in DOMAIN rooms :
    rooms[rid] = i /\ rid \in DOMAIN rooms' /\ rooms'[rid] = i

\* C19: no handler holds two room locks; a handler is inside a `with
\* room.lock` body only while it holds that lock, so two handlers are never
\* inside the bodies of one room together; and every change of the players,
\* last_spawn_ts, game_started, ai_mode or history of a registered room is a
\* step of the handler that holds the room's lock.
C19_LockDiscipline ==
  /\ [](\A t \in DOMAIN th : Cardinality(Held(t)) <= 1)
  /\ [](\A t \in DOMAIN th : th[t].pc = "body" => Held(t) = {th[t].room})
  /\ [][\A i \in 1..Len(heap) :
          (StaysRegistered(i) /\ Guarded(heap'[i]) # Guarded(heap[i])) =>
            \E t \in DOMAIN th :
              /\ heap[i].lock = t
              /\ th[t].pc = "body"
              /\ th[t].room = i
              /\ th'[t].pc # "body"
              /\ heap'[i].lock = 0]_vars

\* two handlers inside the lock bodies of two different rooms, one changing
\* the members and one appending a spawn
C19_Witness ==
  /\ th[1].pc = "body" /\ th[2].pc = "body"
  /\ th[1].room # th[2].room
  /\ th[1].op \in {"join_room", "leave_room", "disconnect"}
  /\ th[2].op = "spawn"
====
